---- MODULE Spec2Model ----
(***************************************************************************)
(* Model of gpymusic's music_objects.py: the MusicObject dict subclasses   *)
(* Artist, Album and Song (construction from API and persisted records,    *)
(* verify, hashing and equality), the lazy fill of Artists and Albums and  *)
(* the playback sequencer MusicObject.play.                                *)
(*                                                                         *)
(* Python values are modelled as follows.  A str that the code indexes or  *)
(* iterates (an id) is a sequence of one-character strings; a dict is a    *)
(* function from key strings to values, so `k in d` is k \in DOMAIN d; a   *)
(* list is a sequence; None is the empty set and a returned integer i is   *)
(* {i}; a raised exception is the record [exc |-> <name>] returned in      *)
(* place of the value and propagated by every caller that does not catch   *)
(* it.                                                                     *)
(***************************************************************************)
EXTENDS Integers, Sequences, FiniteSets, TLC

VARIABLES
    obj,        \* construction: the entity most recently built
    out,        \* construction: operation and result of the last call
    ent,        \* lifecycle: the Artist, Album or Song that fill/play act on
    pc,         \* lifecycle: "idle", "playing" (inside the for loop), "exited"
    songs,      \* the `songs` argument of the running MusicObject.play
    i,          \* the loop counter i of MusicObject.play
    ret,        \* what the last MusicObject.play returned ({} is None)
    exc,        \* exception the last call propagated to its caller ("" if none)
    call,       \* bookkeeping of the call in progress or last finished
    events,     \* external capabilities invoked by the current/last call, in order
    hist,       \* bookkeeping over the entity's whole life
    ncalls      \* number of fill/play calls made so far

vars == <<obj, out, ent, pc, songs, i, ret, exc, call, events, hist, ncalls>>
ctorVars == <<obj, out>>
lifeVars == <<ent, pc, songs, i, ret, exc, call, events, hist, ncalls>>

-----------------------------------------------------------------------------
(* Bounds of the model *)

\* Number of fill/play calls made on the entity in one behaviour.
MaxCalls == 3
\* Longest song list handed directly to MusicObject.play.
MaxSongs == 3

-----------------------------------------------------------------------------
(* Python helpers *)

Raise(e) == [exc |-> e]
IsExc(r) == "exc" \in DOMAIN r

None == {}
Some(n) == {n}

Min(S) == CHOOSE x \in S : \A y \in S : x <= y

Ok(v) == [ok |-> v]
\* The outcome r of an expression as a result: the exception, or Ok(value).
Result(r) == IF IsExc(r) THEN r ELSE Ok(r)

\* The first exception among the results rs, else the list of their values.
FirstExcOrList(rs) ==
    LET bad == {k \in DOMAIN rs : IsExc(rs[k])}
    IN  IF bad = {} THEN Ok(rs) ELSE rs[Min(bad)]

\* except KeyError: []
CatchKeyError(r) == IF IsExc(r) /\ r.exc = "KeyError" THEN Ok(<<>>) ELSE r

\* The dict `base` with base[k1] = r1 and then base[k2] = r2 assigned, the
\* right-hand sides evaluated in this order; the first exception propagates.
Assign2(base, k1, r1, k2, r2) ==
    IF IsExc(r1) THEN r1
    ELSE IF IsExc(r2) THEN r2
    ELSE base @@ (k1 :> r1.ok) @@ (k2 :> r2.ok)

Assign3(base, k1, r1, k2, r2, k3, r3) ==
    IF IsExc(r1) THEN r1
    ELSE IF IsExc(r2) THEN r2
    ELSE IF IsExc(r3) THEN r3
    ELSE base @@ (k1 :> r1.ok) @@ (k2 :> r2.ok) @@ (k3 :> r3.ok)

\* rec[key], or KeyError
Get(rec, key) == IF key \in DOMAIN rec THEN Ok(rec[key]) ELSE Raise("KeyError")

\* ord(c) for the characters that occur in ids.
Ord == ("A" :> 65) @@ ("B" :> 66) @@ ("T" :> 84) @@ ("1" :> 49) @@ ("2" :> 50)

DigitChar(d) == <<"0", "1", "2", "3", "4", "5", "6", "7", "8", "9">>[d + 1]

\* str(n) for a natural number n.
RECURSIVE DecStr(_)
DecStr(n) ==
    IF n < 10 THEN <<DigitChar(n)>>
    ELSE DecStr(n \div 10) \o <<DigitChar(n % 10)>>

\* s.zfill(w)
RECURSIVE ZFill(_, _)
ZFill(s, w) == IF Len(s) >= w THEN s ELSE ZFill(<<"0">> \o s, w)

\* v[0] for the value of an `artistId` field, which the API delivers as a
\* list of ids, as a single id string, or as a non-subscriptable scalar.
Index0(v) ==
    CASE v.t = "list" -> IF Len(v.l) = 0 THEN Raise("IndexError") ELSE [ok |-> v.l[1]]
      [] v.t = "str"  -> IF Len(v.s) = 0 THEN Raise("IndexError") ELSE [ok |-> <<v.s[1]>>]
      [] OTHER        -> Raise("TypeError")

-----------------------------------------------------------------------------
(* MusicObject *)

MusicObject_init(id, name, kind, full) ==
    [id |-> id, name |-> name, kind |-> kind, full |-> full]

\* ''.join(str(ord(c)) for c in self['id'])
RECURSIVE JoinOrd(_)
JoinOrd(s) == IF s = <<>> THEN <<>> ELSE DecStr(Ord[Head(s)]) \o JoinOrd(Tail(s))

\* MusicObject.__hash__: a str.
MusicObject_hash(self) == [t |-> "str", v |-> JoinOrd(self.id)]

\* The builtin hash(x): x.__hash__() must return an integer.
hash(x) ==
    LET h == MusicObject_hash(x)
    IN  IF h.t = "int" THEN [ok |-> h.v] ELSE Raise("TypeError")

\* a == b: MusicObject defines no __eq__, so dict equality decides.
MusicObject_eq(a, b) == a = b

\* Song.time_from_ms
Song_time_from_ms(ms) ==
    ZFill(DecStr(ms \div 60000), 2) \o <<":">> \o ZFill(DecStr((ms \div 1000) % 60), 2)

-----------------------------------------------------------------------------
(* Constructors *)

RECURSIVE Artist(_, _, _), Album(_, _, _), Song(_, _, _), Construct(_, _, _, _)

\* The default of the keyword argument `full` of each constructor.
DefaultFull(kind) == kind = "song"

\* [Kind(x) for x in l] and [Kind(x, source='json') for x in l]: the list
\* of the entities, or the first exception raised.
ListComp(kind, source, l) ==
    FirstExcOrList([k \in 1..Len(l) |-> Construct(kind, l[k], DefaultFull(kind), source)])

\* try: [Kind(x) for x in rec[key]]  except KeyError: []
TryList(kind, rec, key) ==
    IF key \notin DOMAIN rec THEN Ok(<<>>)
    ELSE CatchKeyError(ListComp(kind, "api", rec[key]))

\* [Kind(x) for x in rec[key]], [Kind(x, source='json') for x in rec[key]]
GetList(kind, source, rec, key) ==
    IF key \notin DOMAIN rec THEN Raise("KeyError") ELSE ListComp(kind, source, rec[key])

\* try: v[0]  except TypeError: v    (v the value of song['artistId'])
Index0OrSelf(v) ==
    LET i0 == Index0(v)
    IN  IF IsExc(i0) /\ i0.exc = "TypeError" THEN Ok(v.n) ELSE i0

\* Artist({'name': name, 'artistId': aid}) for an already evaluated id.
MinimalArtist(aid, name) ==
    IF IsExc(aid) THEN aid
    ELSE Result(Artist([artistId |-> aid.ok, name |-> name], FALSE, "api"))

Artist(artist, full, source) ==
    IF source = "api" THEN
        IF ~({"artistId", "name"} \subseteq DOMAIN artist) THEN Raise("KeyError")
        ELSE Assign2(MusicObject_init(artist.artistId, artist.name, "artist", full),
                     "songs", TryList("song", artist, "topTracks"),
                     "albums", TryList("album", artist, "albums"))
    ELSE IF source = "json" THEN
        IF ~({"id", "name"} \subseteq DOMAIN artist) THEN Raise("KeyError")
        ELSE Assign2(MusicObject_init(artist.id, artist.name, "artist", full),
                     "songs", GetList("song", "json", artist, "songs"),
                     "albums", GetList("album", "json", artist, "albums"))
    ELSE <<>>

Album(album, full, source) ==
    IF source = "api" THEN
        IF ~({"albumId", "name", "artistId", "artist"} \subseteq DOMAIN album)
        THEN Raise("KeyError")
        ELSE Assign2(MusicObject_init(album.albumId, album.name, "album", full),
                     "artist", MinimalArtist(Index0(album.artistId), album.artist),
                     "songs", TryList("song", album, "tracks"))
    ELSE IF source = "json" THEN
        IF ~({"id", "name", "artist"} \subseteq DOMAIN album) THEN Raise("KeyError")
        ELSE Assign2(MusicObject_init(album.id, album.name, "album", full),
                     "artist", Result(Artist(album.artist, FALSE, "json")),
                     "songs", GetList("song", "json", album, "songs"))
    ELSE <<>>

Song(song, full, source) ==
    IF source = "api" THEN
        IF ~({"storeId", "title", "artist", "artistId"} \subseteq DOMAIN song)
        THEN Raise("KeyError")
        ELSE Assign3(MusicObject_init(song.storeId, song.title, "song", full),
                     "artist", MinimalArtist(Index0OrSelf(song.artistId), song.artist),
                     "album",
                     IF ~({"album", "albumId"} \subseteq DOMAIN song)
                     THEN Raise("KeyError")
                     ELSE Result(Album([name |-> song.album, albumId |-> song.albumId,
                                        artist |-> song.artist,
                                        artistId |-> song.artistId], FALSE, "api")),
                     "time",
                     IF "durationMillis" \notin DOMAIN song THEN Raise("KeyError")
                     ELSE Ok(Song_time_from_ms(song.durationMillis)))
    ELSE IF source = "json" THEN
        IF ~({"id", "name"} \subseteq DOMAIN song) THEN Raise("KeyError")
        ELSE Assign3(MusicObject_init(song.id, song.name, "song", full),
                     "artist",
                     IF "artist" \notin DOMAIN song THEN Raise("KeyError")
                     ELSE Result(Artist(song.artist, FALSE, "json")),
                     "album",
                     IF "album" \notin DOMAIN song THEN Raise("KeyError")
                     ELSE Result(Album(song.album, FALSE, "json")),
                     "time", Get(song, "time"))
    ELSE <<>>

\* Kind(record, full, source) for the class named by `kind`.
Construct(kind, rec, full, source) ==
    CASE kind = "artist" -> Artist(rec, full, source)
      [] kind = "album"  -> Album(rec, full, source)
      [] OTHER           -> Song(rec, full, source)

-----------------------------------------------------------------------------
(* verify *)

ArtistKeys == {"id", "name", "kind", "full", "songs", "albums"}
AlbumKeys == {"id", "name", "kind", "full", "artist", "songs"}
SongKeys == {"id", "name", "kind", "full", "artist", "album", "time"}

\* bool(k) of a str k
Truthy(k) == k # ""

\* all(k in item for k in (...))
Artist_verify(item) == \A k \in ArtistKeys : k \in DOMAIN item
Album_verify(item) == \A k \in AlbumKeys : k \in DOMAIN item
\* all(k for k in (...))
Song_verify(item) == \A k \in SongKeys : Truthy(k)

Verify(kind, item) ==
    CASE kind = "artist" -> Artist_verify(item)
      [] kind = "album"  -> Album_verify(item)
      [] OTHER           -> Song_verify(item)

RequiredKeys(kind) ==
    CASE kind = "artist" -> ArtistKeys
      [] kind = "album"  -> AlbumKeys
      [] OTHER           -> SongKeys

-----------------------------------------------------------------------------
(* Records the remote API delivers (the shapes of spec section 6) *)

IdA == <<"A", "1">>
IdB == <<"B", "2">>
IdT1 == <<"T", "1">>
IdT2 == <<"T", "2">>

IdList(ids) == [t |-> "list", l |-> ids]
IdStr(id) == [t |-> "str", s |-> id]
IdNum(n) == [t |-> "int", n |-> n]

\* The Python value an `artistId` field holds.
Raw(v) == CASE v.t = "list" -> v.l [] v.t = "str" -> v.s [] OTHER -> v.n

Without(rec, k) == [x \in DOMAIN rec \ {k} |-> rec[x]]

SongRecord(id, title, aid, ms) ==
    [storeId |-> id, title |-> title, artist |-> "artist1", artistId |-> aid,
     album |-> "album1", albumId |-> IdB, durationMillis |-> ms]

AlbumRecord(id, name, aid) ==
    [albumId |-> id, name |-> name, artistId |-> aid, artist |-> "artist1"]

ArtistRecord(id, name) == [artistId |-> id, name |-> name]

Track1 == SongRecord(IdT1, "title1", IdList(<<IdA>>), 125000)
Track2 == SongRecord(IdT2, "title2", IdList(<<IdA, IdB>>), 3600000)
Track3 == SongRecord(IdA, "title3", IdList(<<IdB>>), 59000)
AlbumRec1 == AlbumRecord(IdB, "album1", IdList(<<IdA>>))

\* The forms of `artistId`: a list of ids, a single id string, a single
\* non-subscriptable value, and the empty list.
ArtistIdForms ==
    {IdList(<<IdA>>), IdList(<<IdB, IdA>>), IdStr(IdA), IdNum(7), IdList(<<>>)}

SongApiRecords ==
    {SongRecord(IdA, "title1", aid, 125000) : aid \in ArtistIdForms}
        \cup {Without(Track1, "durationMillis"), Without(Track1, "artistId")}

AlbumApiRecords ==
    LET base == {AlbumRecord(IdA, "album1", aid) :
                    aid \in {IdList(<<IdA>>), IdStr(IdA), IdNum(7)}}
    IN  base \cup {b @@ [tracks |-> <<Track1, Track2>>] : b \in base}
             \cup {Without(AlbumRec1, "artist")}

ArtistApiRecords ==
    LET base == {ArtistRecord(IdA, "name1"), ArtistRecord(IdA, "name2"),
                 ArtistRecord(IdB, "name1")}
        tops == {b @@ [topTracks |-> t] : b \in base, t \in {<<>>, <<Track1, Track2>>}}
    IN  base \cup tops
             \cup {b @@ [albums |-> <<AlbumRec1>>] : b \in base \cup tops}
             \cup {Without(ArtistRecord(IdA, "name1"), "name")}

Kinds == {"artist", "album", "song"}

ApiRecords(kind) ==
    CASE kind = "artist" -> ArtistApiRecords
      [] kind = "album"  -> AlbumApiRecords
      [] OTHER           -> SongApiRecords

\* The persisted record of an entity: the mapping itself, key by key.
ToRecord(e) == [k \in DOMAIN e |-> e[k]]

-----------------------------------------------------------------------------
(* Construction: entities are built, reloaded, verified and compared *)

LifeIdle ==
    /\ ent = Artist(ArtistRecord(IdA, "name1"), FALSE, "api")
    /\ pc = "idle"
    /\ songs = <<>>
    /\ i = 1
    /\ ret = None
    /\ exc = ""
    /\ call = [op |-> "none", entered |-> FALSE]
    /\ events = <<>>
    /\ hist = [lookups |-> 0, returned |-> 0, fills |-> 0, wasFull |-> FALSE]
    /\ ncalls = 0

InitCtor ==
    /\ obj = Artist(ArtistRecord(IdA, "name1"), FALSE, "api")
    /\ out = [op |-> "init"]
    /\ LifeIdle

\* Kind(rec, full) / Kind(rec): construction from an API record.
New(kind) ==
    \E rec \in ApiRecords(kind), full \in BOOLEAN :
        LET r == Construct(kind, rec, full, "api")
        IN  /\ obj' = IF IsExc(r) THEN obj ELSE r
            /\ out' = [op |-> "new", kind |-> kind, rec |-> rec, full |-> full, res |-> r]
            /\ UNCHANGED lifeVars

NewArtist == New("artist")
NewAlbum == New("album")
NewSong == New("song")

\* Kind(record, source='json') on the persisted record of obj, with `full`
\* left at its default or passed from the record.
Reload ==
    \E full \in {DefaultFull(obj.kind), obj.full} :
        LET r == Construct(obj.kind, ToRecord(obj), full, "json")
        IN  /\ obj' = IF IsExc(r) THEN obj ELSE r
            /\ out' = [op |-> "reload", src |-> obj, full |-> full, res |-> r]
            /\ UNCHANGED lifeVars

\* Kind.verify(item) on obj or on obj with one key removed.
VerifyItem ==
    \E kind \in Kinds, drop \in {{}} \cup {{k} : k \in DOMAIN obj} :
        LET item == [k \in DOMAIN obj \ drop |-> obj[k]]
        IN  /\ out' = [op |-> "verify", kind |-> kind, item |-> item,
                       built |-> (drop = {} /\ kind = obj.kind),
                       res |-> Verify(kind, item)]
            /\ UNCHANGED <<obj, lifeVars>>

\* obj == b and hash(obj), hash(b) for another entity b.
Compare ==
    \E kind \in Kinds : \E rec \in ApiRecords(kind), full \in BOOLEAN :
        LET b == Construct(kind, rec, full, "api")
        IN  /\ ~IsExc(b)
            /\ out' = [op |-> "eq", a |-> obj, b |-> b, eq |-> MusicObject_eq(obj, b),
                       ha |-> hash(obj), hb |-> hash(b)]
            /\ UNCHANGED <<obj, lifeVars>>

NextCtor == NewArtist \/ NewAlbum \/ NewSong \/ Reload \/ VerifyItem \/ Compare

SpecCtor == InitCtor /\ [][NextCtor]_vars

-----------------------------------------------------------------------------
(* Lazy fill *)

\* Outcome of a fill: the entity afterwards, the exception that reached the
\* caller ("" if none) and whether the lookup `func` was invoked.
FillResult(self, raised, called) == [self |-> self, exc |-> raised, called |-> called]

\* self['songs'] = ss; self['albums'] = as; self['full'] = True, where the
\* right-hand sides are evaluated, and may raise, in this order.
Artist_fill_assign(self, ss, as) ==
    IF IsExc(ss) THEN FillResult(self, ss.exc, TRUE)
    ELSE IF IsExc(as) THEN FillResult([self EXCEPT !.songs = ss.ok], as.exc, TRUE)
    ELSE FillResult([self EXCEPT !.songs = ss.ok, !.albums = as.ok, !.full = TRUE],
                    "", TRUE)

\* Artist.fill(func), `data` being what func(self['id'], max_top_tracks=limit)
\* returns or raises if it is invoked.
Artist_fill(self, data) ==
    IF self.full THEN FillResult(self, "", FALSE)
    ELSE IF IsExc(data) THEN FillResult(self, data.exc, TRUE)
    ELSE Artist_fill_assign(self, GetList("song", "api", data, "topTracks"),
                            GetList("album", "api", data, "albums"))

Album_fill_assign(self, ss) ==
    IF IsExc(ss) THEN FillResult(self, ss.exc, TRUE)
    ELSE FillResult([self EXCEPT !.songs = ss.ok, !.full = TRUE], "", TRUE)

\* Album.fill(func), `data` being what func(self['id']) returns or raises.
Album_fill(self, data) ==
    IF self.full THEN FillResult(self, "", FALSE)
    ELSE IF IsExc(data) THEN FillResult(self, data.exc, TRUE)
    ELSE Album_fill_assign(self, GetList("song", "api", data, "tracks"))

\* Song.fill: return
Song_fill(self, data) == FillResult(self, "", FALSE)

fill(self, data) ==
    CASE self.kind = "artist" -> Artist_fill(self, data)
      [] self.kind = "album"  -> Album_fill(self, data)
      [] OTHER                -> Song_fill(self, data)

\* The first two lines of Artist.play and Album.play:
\*   if not self['full']: self.fill(lookup)
FillBeforePlay(self, data) ==
    IF ~self.full THEN fill(self, data) ELSE FillResult(self, "", FALSE)

\* Variant of PlayArgument: the list read before the fill is played.
PlayArgumentStale(before, after) == before.songs

\* The argument Artist.play / Album.play hand to MusicObject.play, `before`
\* and `after` being the entity before and after the fill.
PlayArgument(before, after) == after.songs

-----------------------------------------------------------------------------
(* Playback sequencer: MusicObject.play *)

\* Exit code of mpv on the 'q' key binding.
QUIT == 11
ExitCodes == {0, 2, QUIT}

\* Variant of IsQuit: compares with mpv's own quit code instead of 11.
IsQuitDefaultCode(code) == code = 4

\* if call([...]) == 11
IsQuit(code) == code = QUIT

\* Variant of QuitReturn: the index is returned on the last song too.
QuitReturnAlways(idx, n) == Some(idx)

\* return i if i < len(songs) else None
QuitReturn(idx, n) == IF idx < n THEN Some(idx) ELSE None

\* Variant of MissingConf: the check of the configuration file is skipped.
MissingConfIgnored(isfile) == FALSE

\* if not isfile(conf_path): consts.w.goodbye(...)
MissingConf(isfile) == ~isfile

\* consts.w.goodbye ends the process.
Goodbye == "exited"

\* str(song): ' - '.join((self['name'], self['artist']['name']))
Song_str(song) == <<song.name, " - ", song.artist.name>>

\* '(%d/%d) %s (%s)' % (i, len(songs), str(song), song['time'])
NowPlayingMessage(idx, n, song) == <<"(", idx, "/", n, ") ", Song_str(song), " (", song.time, ")">>

Ev(e, idx, id) == [e |-> e, idx |-> idx, id |-> id]

\* One iteration of the for loop on songs[idx], mpv exiting with `code`:
\* the capabilities invoked, and how the iteration ends.
Iteration(ss, idx, code) ==
    [events |-> << Ev("get_stream_url", idx, ss[idx].id),
                   Ev("now_playing", idx, ss[idx].id),
                   Ev("mpv", idx, ss[idx].id) >>,
     message |-> NowPlayingMessage(idx, Len(ss), ss[idx]),
     next |-> IF IsQuit(code) THEN idx ELSE idx + 1,
     returns |-> IsQuit(code) \/ idx + 1 > Len(ss),
     value |-> IF IsQuit(code) THEN QuitReturn(idx, Len(ss)) ELSE None]

-----------------------------------------------------------------------------
(* What the remote lookups deliver *)

ArtistInfo1 ==
    ArtistRecord(IdA, "name1") @@ [topTracks |-> <<Track1, Track2>>, albums |-> <<AlbumRec1>>]
ArtistInfo2 ==
    ArtistRecord(IdA, "name1") @@ [topTracks |-> <<Track3>>, albums |-> <<>>]

AlbumInfo1 == AlbumRec1 @@ [tracks |-> <<Track1, Track2>>]
AlbumInfo2 == AlbumRec1 @@ [tracks |-> <<Track3>>]

\* What a lookup returns or raises: a complete record, a record without
\* one of its optional collections, or a failure of the API.
LookupOutcomes(kind) ==
    CASE kind = "artist" ->
            {Raise("CallFailure"), ArtistInfo1, ArtistInfo2,
             Without(ArtistInfo1, "topTracks"), Without(ArtistInfo1, "albums")}
      [] kind = "album" ->
            {Raise("CallFailure"), AlbumInfo1, AlbumInfo2, Without(AlbumInfo1, "tracks")}
      [] OTHER -> {Raise("CallFailure")}

\* The entities a behaviour starts from: search results (partial), entities
\* built from an info record with full=True, and a song.
LifeEntities ==
    {Artist(r, FALSE, "api") : r \in {ArtistRecord(IdA, "name1"), ArtistInfo2}}
        \cup {Artist(ArtistInfo1, TRUE, "api"), Album(AlbumRec1, FALSE, "api"),
              Album(AlbumInfo2, FALSE, "api"), Album(AlbumInfo1, TRUE, "api"),
              Song(Track1, TRUE, "api")}

\* The song lists handed directly to MusicObject.play (the queue).
\* They alternate between two songs, so that neighbours differ.
QueueSong(k) == IF k % 2 = 1 THEN Song(Track1, TRUE, "api") ELSE Song(Track3, TRUE, "api")
Queues == {[k \in 1..n |-> QueueSong(k)] : n \in 0..MaxSongs}

-----------------------------------------------------------------------------
(* Lifecycle: fill and play calls on one entity *)

Init ==
    /\ obj = Artist(ArtistRecord(IdA, "name1"), FALSE, "api")
    /\ out = [op |-> "init"]
    /\ ent \in LifeEntities
    /\ pc = "idle"
    /\ songs = <<>>
    /\ i = 1
    /\ ret = None
    /\ exc = ""
    /\ call = [op |-> "none", entered |-> FALSE]
    /\ events = <<>>
    /\ hist = [lookups |-> 0, returned |-> 0, fills |-> 0, wasFull |-> ent.full]
    /\ ncalls = 0

CanCall == pc = "idle" /\ ncalls < MaxCalls

\* Events and bookkeeping of a fill with outcome f on lookup result `data`.
LookupEvents(f) == IF f.called THEN <<Ev("lookup", 0, ent.id)>> ELSE <<>>

HistAfter(f, data) ==
    [lookups |-> hist.lookups + (IF f.called THEN 1 ELSE 0),
     returned |-> hist.returned + (IF f.called /\ ~IsExc(data) THEN 1 ELSE 0),
     fills |-> hist.fills + (IF ~ent.full /\ f.self.full THEN 1 ELSE 0),
     wasFull |-> hist.wasFull \/ f.self.full]

\* `entered` says whether MusicObject.play was reached, `isfile` what
\* isfile(conf_path) answered there, `codes` the exit code mpv gives per song.
CallRecord(op, f, data, entered, isfile, codes) ==
    [op |-> op, before |-> ent, data |-> data, called |-> f.called,
     entered |-> entered, isfile |-> isfile, codes |-> codes]

\* entity.fill(lookup)
Fill ==
    /\ CanCall
    /\ \E data \in LookupOutcomes(ent.kind) :
        LET f == fill(ent, data)
        IN  /\ ent' = f.self
            /\ exc' = f.exc
            /\ events' = LookupEvents(f)
            /\ hist' = HistAfter(f, data)
            /\ call' = CallRecord("fill", f, data, FALSE, FALSE, <<>>)
    /\ ncalls' = ncalls + 1
    /\ ret' = None
    /\ UNCHANGED <<pc, songs, i, ctorVars>>

\* MusicObject.play(ss) up to the first iteration of the loop, after the
\* events `before`; isfile is what isfile(conf_path) answers.
Enter(ss, isfile, before) ==
    /\ songs' = ss
    /\ i' = 1
    /\ ret' = None
    /\ IF MissingConf(isfile)
       THEN /\ pc' = Goodbye
            /\ events' = before \o <<Ev("isfile", 0, <<>>), Ev("goodbye", 0, <<>>)>>
       ELSE /\ pc' = IF Len(ss) = 0 THEN "idle" ELSE "playing"
            /\ events' = before \o <<Ev("isfile", 0, <<>>)>>

\* Artist.play(), Album.play()
EntityPlay ==
    /\ CanCall
    /\ ent.kind \in {"artist", "album"}
    /\ \E data \in LookupOutcomes(ent.kind), isfile \in BOOLEAN :
        LET f == FillBeforePlay(ent, data)
            ss == PlayArgument(ent, f.self)
        IN  /\ ent' = f.self
            /\ exc' = f.exc
            /\ hist' = HistAfter(f, data)
            /\ IF f.exc # ""
               THEN /\ events' = LookupEvents(f)
                    /\ call' = CallRecord("play", f, data, FALSE, FALSE, <<>>)
                    /\ ret' = None
                    /\ UNCHANGED <<pc, songs, i>>
               ELSE /\ Enter(ss, isfile, LookupEvents(f))
                    /\ \E codes \in [1..Len(ss) -> ExitCodes] :
                          call' = CallRecord("play", f, data, TRUE, isfile, codes)
    /\ ncalls' = ncalls + 1
    /\ UNCHANGED ctorVars

\* Song.play(): MusicObject.play([self])
SongPlay ==
    /\ CanCall
    /\ ent.kind = "song"
    /\ \E isfile \in BOOLEAN, codes \in [1..1 -> ExitCodes] :
        /\ Enter(<<ent>>, isfile, <<>>)
        /\ call' = CallRecord("play", FillResult(ent, "", FALSE), Raise("none"),
                               TRUE, isfile, codes)
    /\ exc' = ""
    /\ ncalls' = ncalls + 1
    /\ UNCHANGED <<ent, hist, ctorVars>>

\* MusicObject.play(queue) on a list of songs
QueuePlay ==
    /\ CanCall
    /\ \E ss \in Queues, isfile \in BOOLEAN :
        /\ Enter(ss, isfile, <<>>)
        /\ \E codes \in [1..Len(ss) -> ExitCodes] :
              call' = CallRecord("queue", FillResult(ent, "", FALSE), Raise("none"),
                                 TRUE, isfile, codes)
    /\ exc' = ""
    /\ ncalls' = ncalls + 1
    /\ UNCHANGED <<ent, hist, ctorVars>>

\* One iteration of the loop of MusicObject.play: the stream URL of
\* songs[i] is resolved, progress is reported, mpv runs and exits.
PlayStep ==
    /\ pc = "playing"
    /\ LET it == Iteration(songs, i, call.codes[i])
       IN  /\ events' = events \o it.events
           /\ i' = it.next
           /\ IF it.returns
              THEN pc' = "idle" /\ ret' = it.value
              ELSE UNCHANGED <<pc, ret>>
    /\ UNCHANGED <<ent, songs, exc, call, hist, ncalls, ctorVars>>

Next == Fill \/ EntityPlay \/ SongPlay \/ QueuePlay \/ PlayStep

Spec == Init /\ [][Next]_vars

-----------------------------------------------------------------------------
(* Properties of the playback sequencer *)

EventsOf(name) == SelectSeq(events, LAMBDA ev : ev.e = name)
SequencerEvents == SelectSeq(events, LAMBDA ev : ev.idx >= 1)

\* MusicObject.play ran with the configuration file present and returned.
Returned == call.entered /\ call.isfile /\ pc = "idle"

\* Positions at which the pattern of exit codes holds the quit signal, 11.
QuitPositions(codes) == {k \in DOMAIN codes : codes[k] = 11}

\* C1: play(songs) returns i when the quit signal is first observed on the
\* i-th of N songs and i < N, and returns None when it is first observed on
\* the last song, when it is never observed, and when songs is empty.
C1_ResumePoint ==
    Returned =>
        LET q == QuitPositions(call.codes)
        IN  /\ Len(call.codes) = Len(songs)
            /\ ret = IF q # {} /\ Min(q) < Len(songs) THEN {Min(q)} ELSE {}

\* C1 witness: a 3-song queue with the quit signal first on song 2 returned 2.
C1_Witness ==
    /\ Returned
    /\ Len(songs) = 3
    /\ call.codes[1] # 11 /\ call.codes[2] = 11
    /\ ret = {2}

\* C2: with the input-configuration file absent, play fails fatally after one
\* check: goodbye is invoked, and no stream URL is resolved, no progress is
\* reported and the player is not invoked for any song.
C2_MissingConfIsFatal ==
    (call.entered /\ ~call.isfile) =>
        /\ pc = "exited"
        /\ Len(EventsOf("isfile")) = 1
        /\ Len(EventsOf("goodbye")) = 1
        /\ SequencerEvents = <<>>

\* C2 witness: play of a non-empty song list ended in goodbye.
C2_Witness ==
    /\ call.entered /\ ~call.isfile
    /\ Len(songs) >= 2
    /\ pc = "exited"

\* C9: the player is invoked on the songs in sequence order, at most once
\* each; once an invocation returned the quit signal nothing is done for a
\* later song; without a quit signal every song is played exactly once; and
\* a returned index r is the 0-based position of the first song not played.
C9_InOrderUntilQuit ==
    call.entered =>
        LET played == EventsOf("mpv")
            urls == EventsOf("get_stream_url")
            shown == EventsOf("now_playing")
            q == QuitPositions(call.codes)
        IN  /\ \A k \in 1..Len(played) :
                    played[k].idx = k /\ played[k].id = songs[k].id
            /\ \A k \in 1..Len(urls) : urls[k].idx = k /\ urls[k].id = songs[k].id
            /\ \A k \in 1..Len(shown) : shown[k].idx = k
            /\ Len(played) <= Len(songs)
            /\ \A k \in 1..Len(SequencerEvents) :
                    \A j \in q : SequencerEvents[k].idx <= j
            /\ (Returned /\ q = {}) => Len(played) = Len(songs)
            /\ \A r \in ret : r < Len(songs) /\ Len(played) = r

\* C9 witness: a 3-song queue quit on song 2: two songs played, index 2
\* (the third song, 0-based) returned.
C9_Witness ==
    /\ Returned
    /\ call.codes = <<0, 11, 0>>
    /\ Len(EventsOf("mpv")) = 2
    /\ ret = {2}

-----------------------------------------------------------------------------
(* Properties of the lazy fill *)

\* The current or last call is Artist.play or Album.play.
InEntityPlay == call.op = "play" /\ call.before.kind \in {"artist", "album"}

\* The key of the lookup record that holds the songs of an entity.
TracksKey(kind) == IF kind = "artist" THEN "topTracks" ELSE "tracks"

\* C4: Artist.play / Album.play on a Partial entity invoke the lookup exactly
\* once and make the entity Full before any stream URL is resolved, progress
\* is reported or the player is invoked, and the songs handed to the
\* sequencer are the freshly filled list, in order; on a Full entity the
\* current songs are played and the lookup is not invoked.
C4_FillBeforePlay ==
    InEntityPlay =>
        /\ Len(EventsOf("lookup")) = IF call.before.full THEN 0 ELSE 1
        /\ call.before.full => ent = call.before
        /\ call.entered =>
            /\ ent.full
            /\ songs = ent.songs
            /\ ~call.before.full =>
                /\ events[1].e = "lookup"
                /\ Len(songs) = Len(call.data[TracksKey(ent.kind)])
                /\ \A k \in 1..Len(songs) :
                      /\ songs[k].id = call.data[TracksKey(ent.kind)][k].storeId
                      /\ songs[k].name = call.data[TracksKey(ent.kind)][k].title
        /\ SequencerEvents # <<>> => call.entered

\* C4 witness: play of a Partial artist whose list was empty is playing the
\* two songs the lookup delivered.
C4_Witness ==
    /\ InEntityPlay
    /\ ~call.before.full /\ call.before.songs = <<>>
    /\ pc = "playing" /\ i = 2
    /\ Len(songs) = 2

\* C3: Full is terminal: once full it never becomes false again, a fill of
\* a Full entity invokes no lookup and changes nothing, and so the lookup
\* succeeds (returns a record) at most once per entity.
C3_FullIsTerminal ==
    /\ hist.wasFull => ent.full
    /\ (call.op \in {"fill", "play"} /\ call.before.full) =>
            (~call.called /\ ent = call.before)
    /\ hist.returned <= 1

\* C10: a fill of a Partial Artist or Album that fails (the lookup raises, or
\* its record lacks a collection fill reads) invoked the lookup once, and
\* leaves the entity as it was: full = false, songs and albums unchanged.
C10_FailedFillChangesNothing ==
    (call.op \in {"fill", "play"} /\ ~call.before.full /\ exc # "") =>
        /\ Len(EventsOf("lookup")) = 1
        /\ ~ent.full
        /\ ent = call.before

-----------------------------------------------------------------------------
(* Properties of construction, verify, equality and hashing *)

\* hash(a) and hash(b) are values, and the same value.
HashesEqual(ha, hb) == ~IsExc(ha) /\ ~IsExc(hb) /\ ha.ok = hb.ok

\* C5: two entities are equal and have equal hash values if and only if
\* their ids are equal, whatever their other fields are.
C5_IdentityById ==
    out.op = "eq" =>
        ((out.eq /\ HashesEqual(out.ha, out.hb)) <=> (out.a.id = out.b.id))

\* C6: verify of each kind is true of every entity that kind's constructor
\* built and false of every record lacking one of the kind's required keys.
C6_VerifyRequiredKeys ==
    out.op = "verify" =>
        /\ out.built => out.res
        /\ ~(RequiredKeys(out.kind) \subseteq DOMAIN out.item) => ~out.res

\* C7: constructing an entity in 'json' mode from the persisted record of an
\* entity yields that entity again: id, name, kind, full and all nested fields.
C7_RoundTrip ==
    out.op = "reload" => out.res = out.src

\* The form of artistId is a single value or a non-empty list.
SingleOrList(v) == v.t \in {"str", "int"} \/ (v.t = "list" /\ v.l # <<>>)

\* C8: Song(record) succeeds for artistId a single value and for a list, and
\* the artist of the song, and the artist of its album, have the artist
\* identifier as id: the single value, or the first element of the list.
C8_ArtistIdForms ==
    (/\ out.op = "new" /\ out.kind = "song"
     /\ DOMAIN out.rec = DOMAIN Track1
     /\ SingleOrList(out.rec.artistId)) =>
        /\ ~IsExc(out.res)
        /\ LET aid == IF out.rec.artistId.t = "list" THEN out.rec.artistId.l[1]
                      ELSE Raw(out.rec.artistId)
           IN  /\ out.res.artist.id = aid
               /\ out.res.album.artist.id = aid

====
